---- MODULE Spec2Model ----
(***************************************************************************)
(* A model of migas/operations.py: the GraphQL argument builder            *)
(* (_parse_format_params), the response filter (_filter_response) and the  *)
(* four public operations that use them.                                   *)
(*                                                                         *)
(* Python values are tagged records: [t |-> "None"], [t |-> "bool", b],    *)
(* [t |-> "str", s] (s a sequence of characters), [t |-> "list", l] and    *)
(* [t |-> "dict", d] (d a function from string keys to values).  A text is *)
(* a sequence of tokens, each a character or a run of characters holding   *)
(* no quote and no backslash.  A call that raises yields                   *)
(* [raised |-> TRUE, exc |-> <exception name>].                            *)
(***************************************************************************)
EXTENDS Naturals, Sequences, FiniteSets, TLC

VARIABLES
    pc,             \* position of the caller: "ready" before a direct call, "done" after
    response,       \* _filter_response: the response argument
    operation,      \* _filter_response: the operation argument
    fallback,       \* _filter_response: the fallback argument as passed
    fallback_obj,   \* the caller's fallback object after the call (dicts are passed by reference)
    ret,            \* outcome of the last call of _filter_response
    params,         \* _parse_format_params: the params argument
    query_args,     \* _parse_format_params: the query_args argument (the schema)
    built,          \* outcome of the last call of _parse_format_params
    telemetry,      \* Config: whether telemetry is enabled
    error_response, \* class attribute error_response of each Operation subclass
    query,          \* class attribute query of each Operation subclass
    last            \* the last public operation called, the response it got, what it returned

vars == <<pc, response, operation, fallback, fallback_obj, ret, params, query_args,
          built, telemetry, error_response, query, last>>

---------------------------------------------------------------------------
(* Python values *)

EmptyDict == [k \in {} |-> [t |-> "None"]]

PyNone == [t |-> "None"]

PyBool(b) == [t |-> "bool", b |-> b]

PyStr(s) == [t |-> "str", s |-> s]

PyList(l) == [t |-> "list", l |-> l]

PyDict(d) == [t |-> "dict", d |-> d]

PyTuple(l) == [t |-> "tuple", l |-> l]

\* isinstance(v, dict)
IsDict(v) == v.t = "dict"

\* isinstance(v, bool)
IsBool(v) == v.t = "bool"

\* d.get(k, default) on a dict
DictGet(v, k, default) == IF k \in DOMAIN v.d THEN v.d[k] ELSE default

\* d[k] = x on a dict
SetItem(v, k, x) == PyDict((k :> x) @@ v.d)

\* bool(v): None, empty containers and False are falsy
Truthy(v) ==
    CASE v.t = "None" -> FALSE
      [] v.t = "bool" -> v.b
      [] v.t = "str" -> v.s # <<>>
      [] v.t = "list" -> v.l # <<>>
      [] v.t = "tuple" -> v.l # <<>>
      [] v.t = "dict" -> DOMAIN v.d # {}

Returned(v) == [raised |-> FALSE, value |-> v]

Raised(e) == [raised |-> TRUE, exc |-> e]

NotCalled == [raised |-> FALSE, value |-> [t |-> "not called"]]

---------------------------------------------------------------------------
(* _filter_response *)

ERROR == <<"[migas-py] An error occurred.">>

\* the fallback built when none (or a falsy one) is passed
DefaultFallback == PyDict([success |-> PyBool(FALSE), message |-> PyStr(ERROR)])

\* `if not fallback: fallback = {...}`: the local name is rebound to a new dict
BindFallback(fb) == IF ~Truthy(fb) THEN DefaultFallback ELSE fb

\* response.get('errors'): only a dict has .get
GetErrors(resp) ==
    IF IsDict(resp) THEN Returned(DictGet(resp, "errors", PyNone))
    ELSE Raised("AttributeError")

\* e[0]
Subscript0(e) ==
    CASE e.t = "list" -> IF e.l # <<>> THEN Returned(e.l[1]) ELSE Raised("IndexError")
      [] e.t = "str" -> IF e.s # <<>> THEN Returned(PyStr(<<e.s[1]>>)) ELSE Raised("IndexError")
      [] e.t = "dict" -> Raised("KeyError")     \* keys of a decoded JSON object are strings
      [] OTHER -> Raised("TypeError")

\* x['message']
SubscriptMessage(x) ==
    CASE x.t = "dict" -> IF "message" \in DOMAIN x.d THEN Returned(x.d["message"])
                         ELSE Raised("KeyError")
      [] OTHER -> Raised("TypeError")

\* A faulty variant: the message of the last error is read, not of the first.
ReadErrorMessage_Last(resp) ==
    LET e == GetErrors(resp) IN
    IF e.raised THEN e
    ELSE IF e.value.t = "list" /\ e.value.l # <<>>
         THEN SubscriptMessage(e.value.l[Len(e.value.l)])
         ELSE LET x == Subscript0(e.value) IN
              IF x.raised THEN x ELSE SubscriptMessage(x.value)

\* response.get('errors')[0]['message']
ReadErrorMessage(resp) ==
    LET e == GetErrors(resp) IN
    IF e.raised THEN e
    ELSE LET x == Subscript0(e.value) IN
         IF x.raised THEN x ELSE SubscriptMessage(x.value)

\* A faulty variant: a try without the `finally: return`, so the exception escapes.
FailurePath_Propagates(resp, fb) ==
    LET m == ReadErrorMessage(resp) IN
    IF m.raised THEN [raised |-> TRUE, exc |-> m.exc, fb |-> fb]
    ELSE [raised |-> FALSE, value |-> SetItem(fb, "message", m.value),
          fb |-> SetItem(fb, "message", m.value)]

\* try: fallback['message'] = ...  finally: return fallback
\* The return in the finally clause discards an exception raised in the try body.
\* fb is the dict the local name is bound to; the assignment changes it in place.
FailurePath(resp, fb) ==
    LET m == ReadErrorMessage(resp)
        after == IF m.raised THEN fb ELSE SetItem(fb, "message", m.value)
    IN [raised |-> FALSE, value |-> after, fb |-> after]

\* A faulty variant: the operation's key is looked up without the default.
SuccessPath_NoDefault(res, op, fb) ==
    [raised |-> FALSE, value |-> DictGet(res, op, PyNone), fb |-> fb]

\* return res.get(operation, fallback)
SuccessPath(res, op, fb) ==
    [raised |-> FALSE, value |-> DictGet(res, op, fb), fb |-> fb]

\* The whole function.  The outcome carries, besides the returned value, the state
\* `obj` of the object the caller passed as fallback: it is the dict the function
\* assigned into when the caller's fallback was truthy, and untouched otherwise.
FilterResponse(resp, op, fallbackArg) ==
    LET fb == BindFallback(fallbackArg)
        out == IF IsDict(resp) /\ IsDict(DictGet(resp, "data", PyNone))
               THEN SuccessPath(DictGet(resp, "data", PyNone), op, fb)
               ELSE FailurePath(resp, fb)
        obj == IF Truthy(fallbackArg) THEN out.fb ELSE fallbackArg
    IN IF out.raised THEN [raised |-> TRUE, exc |-> out.exc, obj |-> obj]
       ELSE [raised |-> FALSE, value |-> out.value, obj |-> obj]

---------------------------------------------------------------------------
(* _parse_format_params *)

\* A schema (query_args) is the sequence of the dict's items in definition order,
\* each [name |-> qarg, node |-> qval]; qval is a TextType member or a nested dict.
Kind(n) == [k |-> "kind", name |-> n]

Group(entries) == [k |-> "group", entries |-> entries]

Item(qarg, qval) == [name |-> qarg, node |-> qval]

\* str(val) of a bool
StrOfBool(b) == IF b THEN <<"True">> ELSE <<"False">>

\* A faulty variant: the text of a bool is not lowercased.
StrLower_Missing(s) == s

\* str.lower(), token by token: of the tokens of the model only True and False
\* hold an uppercase letter
StrLower(s) ==
    [i \in 1..Len(s) |-> CASE s[i] = "True" -> "true"
                           [] s[i] = "False" -> "false"
                           [] OTHER -> s[i]]

\* json.dumps escapes a quote and a backslash with a backslash
RECURSIVE JsonEscape(_)
JsonEscape(s) ==
    IF s = <<>> THEN <<>>
    ELSE (IF Head(s) \in {"\"", "\\"} THEN <<"\\", Head(s)>> ELSE <<Head(s)>>)
         \o JsonEscape(Tail(s))

\* json.dumps(val) of a str
JsonDumps(val) == <<"\"">> \o JsonEscape(val.s) \o <<"\"">>

\* f'{val}' of a str
FormatStr(val) == val.s

\* ','.join(parts)
RECURSIVE JoinComma(_)
JoinComma(parts) ==
    IF parts = <<>> THEN <<>>
    ELSE IF Len(parts) = 1 THEN parts[1]
    ELSE parts[1] \o <<",">> \o JoinComma(Tail(parts))

\* `qarg in params`
InParams(qarg, p) == qarg \in DOMAIN p.d

\* The body of `if qarg in params:`.  qval.name raises on a dict; in the else
\* branch the argument of logger.error, qarg.name, raises on the str qarg before
\* anything is logged, so `fval = ''` is never reached.
LeafFragment(qarg, qval, p) ==
    LET val == p.d[qarg]
        v == IF IsBool(val) THEN PyStr(StrLower(StrOfBool(val.b))) ELSE val
    IN IF qval.k = "group" THEN Raised("AttributeError")
       ELSE IF qval.name = "FREE" THEN Returned(<<qarg, ":">> \o JsonDumps(v))
       ELSE IF qval.name = "LITERAL" THEN Returned(<<qarg, ":">> \o FormatStr(v))
       ELSE Raised("AttributeError")

\* A faulty variant: the braces of a nested group are left out.
GroupFragment_NoBraces(qarg, vals) == <<qarg, ":">> \o vals

\* f'{qarg}:{{{vals}}}', appended whatever vals is
GroupFragment(qarg, vals) == <<qarg, ":", "{">> \o vals \o <<"}">>

\* The for loop from item i on, query_inputs being the fragments appended so far.
\* A nested dict whose name is not in params is built from the same params.
RECURSIVE ParseLoop(_, _, _, _)
ParseLoop(p, qa, i, query_inputs) ==
    IF i > Len(qa) THEN Returned(JoinComma(query_inputs))
    ELSE LET qarg == qa[i].name
             qval == qa[i].node
         IN IF InParams(qarg, p)
            THEN LET f == LeafFragment(qarg, qval, p) IN
                 IF f.raised THEN f
                 ELSE ParseLoop(p, qa, i + 1, Append(query_inputs, f.value))
            ELSE IF qval.k = "group"
            THEN LET vals == ParseLoop(p, qval.entries, 1, <<>>) IN
                 IF vals.raised THEN vals
                 ELSE ParseLoop(p, qa, i + 1,
                                Append(query_inputs, GroupFragment(qarg, vals.value)))
            ELSE ParseLoop(p, qa, i + 1, query_inputs)

ParseFormatParams(p, qa) == ParseLoop(p, qa, 1, <<>>)

---------------------------------------------------------------------------
(* The Operation subclasses and the public operations *)

Classes == {"AddBreadcrumb", "AddProject", "CheckProject", "GetUsage"}

FREE == Kind("FREE")

LITERAL == Kind("LITERAL")

operation_type(cls) ==
    CASE cls = "AddBreadcrumb" -> "mutation"
      [] cls = "AddProject" -> "mutation"
      [] cls = "CheckProject" -> "query"
      [] cls = "GetUsage" -> "query"

operation_name(cls) ==
    CASE cls = "AddBreadcrumb" -> "add_breadcrumb"
      [] cls = "AddProject" -> "add_project"
      [] cls = "CheckProject" -> "check_project"
      [] cls = "GetUsage" -> "get_usage"

AddBreadcrumbArgs ==
    << Item("project", FREE), Item("project_version", FREE), Item("language", FREE),
       Item("language_version", FREE),
       Item("ctx", Group(<< Item("session_id", FREE), Item("user_id", FREE),
                            Item("user_type", LITERAL), Item("platform", FREE),
                            Item("container", LITERAL), Item("is_ci", LITERAL) >>)),
       Item("proc", Group(<< Item("status", LITERAL), Item("status_desc", FREE),
                             Item("error_type", FREE), Item("error_desc", FREE) >>)) >>

AddProjectArgs ==
    << Item("p", Group(<< Item("project", FREE), Item("project_version", FREE),
                          Item("language", FREE), Item("language_version", FREE),
                          Item("is_ci", LITERAL), Item("status", LITERAL),
                          Item("status_desc", FREE), Item("error_type", FREE),
                          Item("error_desc", FREE), Item("user_id", FREE),
                          Item("session_id", FREE), Item("container", LITERAL),
                          Item("user_type", LITERAL), Item("platform", FREE),
                          Item("arguments", FREE) >>)) >>

CheckProjectArgs ==
    << Item("project", FREE), Item("project_version", FREE), Item("language", FREE),
       Item("language_version", FREE), Item("is_ci", LITERAL), Item("status", LITERAL),
       Item("status_desc", FREE), Item("error_type", FREE), Item("error_desc", FREE),
       Item("user_id", FREE), Item("session_id", FREE), Item("container", LITERAL),
       Item("platform", FREE), Item("arguments", FREE) >>

GetUsageArgs ==
    << Item("project", FREE), Item("start", FREE), Item("end", FREE),
       Item("unique", LITERAL) >>

QueryArgsOf(cls) ==
    CASE cls = "AddBreadcrumb" -> AddBreadcrumbArgs
      [] cls = "AddProject" -> AddProjectArgs
      [] cls = "CheckProject" -> CheckProjectArgs
      [] cls = "GetUsage" -> GetUsageArgs

fingerprint(cls) == cls \in {"AddBreadcrumb", "AddProject"}

selections(cls) ==
    CASE cls = "AddBreadcrumb" -> << <<"success">> >>
      [] cls = "CheckProject" -> << <<"success">>, <<"flagged">>, <<"latest">>, <<"message">> >>
      [] OTHER -> << >>

AddProjectErrorResponse ==
    PyDict([success |-> PyBool(FALSE), latest_version |-> PyNone, message |-> PyStr(ERROR)])

\* the class attribute error_response as the class statement defines it
DefinedErrorResponse(cls) ==
    IF cls = "AddProject" THEN AddProjectErrorResponse ELSE PyNone

\* Config.populate(): the auto-detected context fields of a fingerprint
ConfigPopulate ==
    PyDict([language |-> PyStr(<<"python">>), language_version |-> PyStr(<<"3.11">>),
            platform |-> PyStr(<<"linux">>), container |-> PyStr(<<"unknown">>),
            is_ci |-> PyBool(FALSE), user_id |-> PyStr(<<"u1">>)])

\* _introspec(cls.generate_query, locals()): of the bound method's parameters, args
\* and kwargs, kwargs is skipped and args, the empty tuple, differs from the default
Introspec == PyDict([args |-> PyTuple(<<>>)])

\* {**params, **kwargs, **parameters}: a later mapping wins
MergeParams(cls, kwargs) ==
    PyDict(Introspec.d @@ kwargs.d @@ (IF fingerprint(cls) THEN ConfigPopulate.d ELSE EmptyDict))

\* _construct_query, given the argument string
AssembleQuery(cls, args) ==
    <<operation_type(cls), "{", operation_name(cls), "(">> \o args \o <<")">>
    \o (IF selections(cls) # <<>> THEN <<"{">> \o JoinComma(selections(cls)) \o <<"}">>
        ELSE <<>>)
    \o <<"}">>

\* generate_query: the query, or the exception _parse_format_params raised
GenerateQuery(cls, kwargs) ==
    LET a == ParseFormatParams(MergeParams(cls, kwargs), QueryArgsOf(cls)) IN
    IF a.raised THEN a ELSE Returned(AssembleQuery(cls, a.value))

\* the result of a public operation when telemetry is disabled
NoOpResult == PyDict(EmptyDict)

\* the @telemetry_enabled gate: whether the wrapped function runs
TelemetryEnabled == telemetry

\* One public operation: the telemetry gate, generate_query (which stores the query
\* on the class), the request, and _filter_response on the class's error_response,
\* which is the very dict the class holds.
Call(cls, kwargs, resp) ==
    IF ~TelemetryEnabled
    THEN /\ last' = [op |-> operation_name(cls), response |-> PyNone,
                     res |-> Returned(NoOpResult)]
         /\ UNCHANGED <<error_response, query>>
    ELSE LET q == GenerateQuery(cls, kwargs) IN
         IF q.raised
         THEN /\ last' = [op |-> operation_name(cls), response |-> PyNone, res |-> q]
              /\ UNCHANGED <<error_response, query>>
         ELSE LET r == FilterResponse(resp, operation_name(cls), error_response[cls]) IN
              /\ query' = [query EXCEPT ![cls] = q.value]
              /\ error_response' = [error_response EXCEPT ![cls] = r.obj]
              /\ last' = [op |-> operation_name(cls), response |-> resp,
                          res |-> IF r.raised THEN Raised(r.exc) ELSE Returned(r.value)]

---------------------------------------------------------------------------
(* Inputs *)

\* the longest errors list a response carries
MaxErrors == 2

\* the deepest nesting of groups in a schema
MaxDepth == 2

MessageTexts == <<"bad input", "second error", "third error", "fourth error">>

ErrorEntry(i) == PyDict([message |-> PyStr(<<MessageTexts[((i - 1) % 4) + 1]>>)])

Absent == [t |-> "absent"]

\* a dict with the key k bound to v, or without it when v is Absent
Opt(k, v) == IF v = Absent THEN EmptyDict ELSE (k :> v)

ErrorsShapes ==
    { PyList([i \in 1..n |-> ErrorEntry(i)]) : n \in 0..MaxErrors }
    \cup { Absent, PyNone, PyStr(<<"e", "r", "r">>), PyStr(<<>>), PyBool(TRUE),
           PyDict([message |-> PyStr(<<"misplaced">>)]),
           PyList(<<PyDict([code |-> PyStr(<<"500">>)])>>),
           PyList(<<PyStr(<<"text">>)>>),
           PyList(<<PyNone>>),
           PyList(<<PyDict([message |-> PyNone])>>) }

DataShapes ==
    { Absent, PyNone, PyStr(<<"text">>), PyList(<<>>), PyBool(TRUE),
      PyDict(EmptyDict),
      PyDict([op |-> PyDict([success |-> PyBool(TRUE)])]),
      PyDict([op |-> PyDict([success |-> PyBool(FALSE), message |-> PyStr(<<"flagged">>)])]),
      PyDict([op |-> PyNone]),
      PyDict([op |-> PyStr(<<"text">>)]),
      PyDict([op |-> PyList(<<>>)]),
      PyDict([other |-> PyDict([success |-> PyBool(TRUE)])]) }

Responses ==
    { PyStr(<<"not a dict">>), PyStr(<<>>), PyNone, PyList(<<>>) }
    \cup { PyDict(Opt("data", d) @@ Opt("errors", e)) : d \in DataShapes, e \in ErrorsShapes }

OperationNames == {"op", "check_project"}

Fallbacks ==
    { PyNone, PyDict(EmptyDict), AddProjectErrorResponse,
      PyDict([success |-> PyBool(FALSE), message |-> PyStr(<<"generic">>)]),
      PyDict([success |-> PyBool(FALSE)]) }

Kinds == { Kind("FREE"), Kind("LITERAL"), Kind("OTHER") }

\* the parameter names of a schema at nesting depth d
NamesAt(d) == CASE d = 1 -> <<"a", "b">> [] d = 2 -> <<"c", "d">> [] OTHER -> <<"e">>

\* the schemas at depth d: the first name of the depth or both, each a kind or a
\* nested schema
RECURSIVE SchemasAt(_)
SchemasAt(d) ==
    LET nodes == Kinds \cup (IF d < MaxDepth THEN { Group(s) : s \in SchemasAt(d + 1) } ELSE {})
        names == NamesAt(d)
    IN { <<Item(names[1], n)>> : n \in nodes }
       \cup (IF Len(names) = 1 THEN {}
             ELSE { <<Item(names[1], n1), Item(names[2], n2)>> : n1 \in nodes, n2 \in nodes })

Schemas == SchemasAt(1)

ParamsSet ==
    { PyDict(Opt("a", va) @@ Opt("b", vb) @@ Opt("c", vc) @@ Opt("d", vd)
             @@ Opt("e", ve) @@ Opt("z", vz)) :
        va \in { Absent, PyStr(<<"x">>), PyStr(<<"\"", "\\">>), PyBool(TRUE),
                 PyDict([c |-> PyBool(TRUE)]) },
        vb \in { Absent, PyBool(FALSE), PyDict([c |-> PyBool(TRUE), d |-> PyStr(<<"x">>)]) },
        vc \in { Absent, PyBool(TRUE), PyStr(<<"x">>) },
        vd \in { Absent, PyStr(<<"True">>) },
        ve \in IF MaxDepth >= 3 THEN { Absent, PyBool(TRUE) } ELSE { Absent },
        vz \in { Absent, PyStr(<<"x">>) } }

\* a nested mapping is a value for a group parameter only
SubMappingsUnderGroups(p, qa) ==
    \A k \in DOMAIN p.d :
        IsDict(p.d[k]) => \E i \in 1..Len(qa) : qa[i].name = k /\ qa[i].node.k = "group"

BaseKwargs == [project |-> PyStr(<<"x">>), project_version |-> PyStr(<<"1">>)]

UsageKwargs == [project |-> PyStr(<<"x">>), start |-> PyStr(<<"2022">>)]

ExtraKwargs == { EmptyDict, [status |-> PyStr(<<"R">>), unknown_key |-> PyStr(<<"x">>)] }

\* what the transport may hand back for an operation
TransportResponses(name) ==
    { PyStr(<<"not a dict">>),
      PyDict([data |-> PyDict(EmptyDict)]),
      PyDict("data" :> PyDict(name :> PyDict([success |-> PyBool(TRUE)]))),
      PyDict([data |-> PyNone, errors |-> PyList(<<ErrorEntry(1)>>)]),
      PyDict([errors |-> PyList(<<ErrorEntry(2), ErrorEntry(1)>>)]) }

---------------------------------------------------------------------------
(* Specifications *)

NoFilterCall ==
    /\ response = PyNone /\ operation = "" /\ fallback = PyNone
    /\ fallback_obj = PyNone /\ ret = NotCalled

NoBuildCall == params = PyDict(EmptyDict) /\ query_args = <<>> /\ built = NotCalled

ClassesAsDefined ==
    /\ error_response = [c \in Classes |-> DefinedErrorResponse(c)]
    /\ query = [c \in Classes |-> <<>>]
    /\ last = [op |-> "", response |-> PyNone, res |-> NotCalled]

\* the public operations, called in any order with any response
Init ==
    /\ pc = "idle"
    /\ telemetry \in BOOLEAN
    /\ NoFilterCall /\ NoBuildCall /\ ClassesAsDefined

add_breadcrumb ==
    /\ pc = "idle"
    /\ \E kw \in ExtraKwargs \cup { [proc |-> PyDict([status |-> PyStr(<<"R">>)])] },
          resp \in TransportResponses("add_breadcrumb") :
          Call("AddBreadcrumb", PyDict(kw @@ BaseKwargs), resp)
    /\ UNCHANGED <<pc, response, operation, fallback, fallback_obj, ret, params,
                   query_args, built, telemetry>>

add_project ==
    /\ pc = "idle"
    /\ \E kw \in ExtraKwargs, resp \in TransportResponses("add_project") :
          Call("AddProject", PyDict(kw @@ BaseKwargs), resp)
    /\ UNCHANGED <<pc, response, operation, fallback, fallback_obj, ret, params,
                   query_args, built, telemetry>>

check_project ==
    /\ pc = "idle"
    /\ \E kw \in ExtraKwargs, resp \in TransportResponses("check_project") :
          Call("CheckProject", PyDict(kw @@ BaseKwargs), resp)
    /\ UNCHANGED <<pc, response, operation, fallback, fallback_obj, ret, params,
                   query_args, built, telemetry>>

get_usage ==
    /\ pc = "idle"
    /\ \E kw \in { EmptyDict, [unique |-> PyBool(TRUE)] },
          resp \in TransportResponses("get_usage") :
          Call("GetUsage", PyDict(kw @@ UsageKwargs), resp)
    /\ UNCHANGED <<pc, response, operation, fallback, fallback_obj, ret, params,
                   query_args, built, telemetry>>

Next == add_breadcrumb \/ add_project \/ check_project \/ get_usage

Spec == Init /\ [][Next]_vars

\* one direct call of _filter_response on any response, operation and fallback
InitFilter ==
    /\ pc = "ready"
    /\ telemetry = TRUE
    /\ response \in Responses
    /\ operation \in OperationNames
    /\ fallback \in Fallbacks
    /\ fallback_obj = fallback
    /\ ret = NotCalled
    /\ NoBuildCall /\ ClassesAsDefined

FilterCall ==
    /\ pc = "ready"
    /\ LET r == FilterResponse(response, operation, fallback) IN
       /\ ret' = (IF r.raised THEN Raised(r.exc) ELSE Returned(r.value))
       /\ fallback_obj' = r.obj
    /\ pc' = "done"
    /\ UNCHANGED <<response, operation, fallback, params, query_args, built,
                   telemetry, error_response, query, last>>

SpecFilter == InitFilter /\ [][FilterCall]_vars

\* one direct call of _parse_format_params on any schema and params
InitBuild ==
    /\ pc = "ready"
    /\ telemetry = TRUE
    /\ query_args \in Schemas
    /\ params \in ParamsSet
    /\ SubMappingsUnderGroups(params, query_args)
    /\ built = NotCalled
    /\ NoFilterCall /\ ClassesAsDefined

BuildCall ==
    /\ pc = "ready"
    /\ built' = ParseFormatParams(params, query_args)
    /\ pc' = "done"
    /\ UNCHANGED <<response, operation, fallback, fallback_obj, ret, params,
                   query_args, telemetry, error_response, query, last>>

SpecBuild == InitBuild /\ [][BuildCall]_vars

---------------------------------------------------------------------------
(* Properties of _filter_response, under SpecFilter *)

\* the fallback in force: the default mapping when none, or an empty one, is passed
FallbackInForce ==
    IF fallback = PyNone \/ fallback = PyDict(EmptyDict)
    THEN PyDict([success |-> PyBool(FALSE), message |-> PyStr(ERROR)])
    ELSE fallback

DataIsMapping ==
    /\ IsDict(response)
    /\ "data" \in DOMAIN response.d
    /\ IsDict(response.d["data"])

\* errors is a non-empty list whose first element is a mapping with a message
MessageReadable ==
    /\ IsDict(response)
    /\ "errors" \in DOMAIN response.d
    /\ response.d["errors"].t = "list"
    /\ response.d["errors"].l # <<>>
    /\ IsDict(response.d["errors"].l[1])
    /\ "message" \in DOMAIN response.d["errors"].l[1].d

\* C1: when response is a mapping whose data is a mapping, the result is
\* data[operation] if that key is present and otherwise the fallback with every
\* field unchanged, whether or not response has an errors entry; the caller's
\* fallback is left as it was.
C1_SuccessPath ==
    (pc = "done" /\ DataIsMapping) =>
        /\ ~ret.raised
        /\ ret.value = IF operation \in DOMAIN response.d["data"].d
                       THEN response.d["data"].d[operation]
                       ELSE FallbackInForce
        /\ fallback_obj = fallback

\* C1 witness: data is a mapping without the operation's key, a readable error
\* message is present, and the fallback came back untouched.
C1_Witness ==
    /\ pc = "done" /\ DataIsMapping /\ MessageReadable
    /\ operation \notin DOMAIN response.d["data"].d
    /\ Truthy(fallback)
    /\ ret.value = fallback

\* C2: on the failure path (response not a mapping, data absent or not a mapping)
\* the result is the fallback with message replaced by errors[0].message when that
\* can be read, and the fallback unchanged when it cannot; every other field of the
\* fallback is unchanged.
C2_FailurePath ==
    (pc = "done" /\ ~DataIsMapping) =>
        /\ ~ret.raised
        /\ IsDict(ret.value)
        /\ DOMAIN ret.value.d \subseteq DOMAIN FallbackInForce.d \cup {"message"}
        /\ \A k \in DOMAIN FallbackInForce.d \ {"message"} :
              k \in DOMAIN ret.value.d /\ ret.value.d[k] = FallbackInForce.d[k]
        /\ IF MessageReadable
           THEN /\ "message" \in DOMAIN ret.value.d
                /\ ret.value.d["message"] = response.d["errors"].l[1].d["message"]
           ELSE ret.value = FallbackInForce

\* C2 witness: an errors list of two messages and no data; the first message
\* replaced the generic one.
C2_Witness ==
    /\ pc = "done" /\ ~DataIsMapping /\ MessageReadable
    /\ Len(response.d["errors"].l) = 2
    /\ fallback = PyDict([success |-> PyBool(FALSE), message |-> PyStr(<<"generic">>)])
    /\ ret.value = PyDict([success |-> PyBool(FALSE), message |-> PyStr(<<"bad input">>)])

\* C3: the call never raises, whatever the response, the operation and the fallback.
C3_NeverRaises == pc = "done" => ~ret.raised

\* C3 witness: reading the error message failed (the first error has no message)
\* and the call returned the fallback.
C3_Witness ==
    /\ pc = "done"
    /\ IsDict(response) /\ ~DataIsMapping
    /\ "errors" \in DOMAIN response.d
    /\ response.d["errors"] = PyList(<<PyDict([code |-> PyStr(<<"500">>)])>>)
    /\ ~ret.raised
    /\ ret.value = FallbackInForce

\* C4: the value returned is always a mapping, never None, also when data holds
\* the operation's key with a null or non-mapping value.
C4_ReturnsMapping == pc = "done" => (~ret.raised /\ IsDict(ret.value))

---------------------------------------------------------------------------
(* Properties of the public operations, under Spec *)

\* C5: after any sequence of public-operation calls every operation's
\* error_response equals the value it was defined with.
C5_ErrorResponseImmutable ==
    \A c \in Classes : error_response[c] = DefinedErrorResponse(c)

---------------------------------------------------------------------------
(* Properties of _parse_format_params, under SpecBuild *)

\* the items of a schema at every depth
RECURSIVE AllItems(_)
AllItems(qa) ==
    UNION { {qa[i]} \cup (IF qa[i].node.k = "group" THEN AllItems(qa[i].node.entries) ELSE {})
            : i \in 1..Len(qa) }

LeafItems(qa) == { it \in AllItems(qa) : it.node.k = "kind" }

GroupItems(qa) == { it \in AllItems(qa) : it.node.k = "group" }

Keys == DOMAIN params.d

Out == built.value

BuiltOk == pc = "done" /\ ~built.raised

\* the names the argument string gives a value to: the tokens followed by a colon
NamesEmitted == { Out[i] : i \in { j \in 1..Len(Out) : j < Len(Out) /\ Out[j + 1] = ":" } }

\* the text emitted after position i and its colon, up to the next comma or brace
ValueAt(i) ==
    LET stops == { j \in (i + 2)..Len(Out) : Out[j] \in {",", "}"} } \cup {Len(Out) + 1}
        end == CHOOSE j \in stops : \A k \in stops : j <= k
    IN SubSeq(Out, i + 2, end - 1)

\* the texts emitted as the value of name n, one for each place n is emitted at
ValuesOf(n) ==
    { ValueAt(i) : i \in { j \in 1..Len(Out) : Out[j] = n /\ j < Len(Out) /\ Out[j + 1] = ":" } }

IsInfix(s, t) == \E i \in 0..Len(t) : i + Len(s) <= Len(t) /\ SubSeq(t, i + 1, i + Len(s)) = s

\* the text of a value as an argument: a bool as true or false, a str as it is
TextOf(val) == IF IsBool(val) THEN (IF val.b THEN <<"true">> ELSE <<"false">>) ELSE val.s

\* the text in double quotes, quotes and backslashes escaped
Quoted(text) == <<"\"">> \o JsonEscape(text) \o <<"\"">>

\* the arguments of a schema read from the flat params: every leaf that is a key,
\* every group with its own arguments in braces
RECURSIVE FlatFrags(_, _)
FlatFrags(qa, i) ==
    IF i > Len(qa) THEN << >>
    ELSE LET it == qa[i] IN
         (IF it.node.k = "group"
          THEN << <<it.name, ":", "{">> \o JoinComma(FlatFrags(it.node.entries, 1)) \o <<"}">> >>
          ELSE IF it.name \in Keys
          THEN << <<it.name, ":">> \o (IF it.node.name = "FREE"
                                       THEN Quoted(TextOf(params.d[it.name]))
                                       ELSE TextOf(params.d[it.name])) >>
          ELSE << >>)
         \o FlatFrags(qa, i + 1)

FlatArgs(qa) == JoinComma(FlatFrags(qa, 1))

ExampleSchema == << Item("a", Kind("FREE")), Item("b", Group(<< Item("c", Kind("LITERAL")) >>)) >>

ExampleText == <<"a", ":", "\"", "x", "\"", ",", "b", ":", "{", "c", ":", "true", "}">>

\* every leaf of the schema is FreeText or Literal
KindsKnown == \A it \in LeafItems(query_args) : it.node.name \in {"FREE", "LITERAL"}

SubMappingGiven ==
    /\ KindsKnown
    /\ \E g \in GroupItems(query_args) : g.name \in Keys /\ IsDict(params.d[g.name])

C7_EmptyGroupOmitted ==
    (BuiltOk /\ KindsKnown) =>
        \A g \in GroupItems(query_args) :
            (\A it \in AllItems(g.node.entries) : it.name \notin Keys) =>
                g.name \notin NamesEmitted

\* C8: a leaf present in the values whose kind is neither FREE nor LITERAL does not
\* abort the call: a string is returned in which that argument has an empty value.
C8_UnknownKindEmitsEmpty ==
    (pc = "done" /\ \A g \in GroupItems(query_args) : g.name \notin Keys) =>
        /\ ~built.raised
        /\ \A it \in LeafItems(query_args) :
              (it.name \in Keys /\ it.node.name \notin {"FREE", "LITERAL"}) =>
                  ValuesOf(it.name) = {<<>>}

BoolLeaves ==
    { it \in LeafItems(query_args) : it.name \in Keys /\ IsBool(params.d[it.name]) }

\* C9 as stated: every leaf present with a boolean value, whatever its kind, is
\* emitted as name:true or name:false, lowercase and unquoted.
C9_BoolUnquotedAnyKind ==
    BuiltOk =>
        \A it \in BoolLeaves :
            ValuesOf(it.name) = {IF params.d[it.name].b THEN <<"true">> ELSE <<"false">>}

\* C9 amended: in a call that returns, a leaf present with a boolean value is
\* emitted in lowercase: a Literal leaf as name:true or name:false, unquoted, and a
\* FreeText leaf as name:"true" or name:"false", in double quotes.
C9_BoolLowercaseByKind ==
    BuiltOk =>
        \A it \in BoolLeaves :
            LET word == IF params.d[it.name].b THEN "true" ELSE "false" IN
            ValuesOf(it.name) =
                { IF l.node.name = "LITERAL" THEN <<word>> ELSE <<"\"", word, "\"">> :
                  l \in { l \in LeafItems(query_args) : l.name = it.name } }

\* C9 witness: a FreeText leaf and a Literal leaf, both with a boolean value, were
\* emitted in one call.
C9_Witness ==
    /\ BuiltOk
    /\ \E it \in BoolLeaves : it.node.name = "FREE" /\ ValuesOf(it.name) = {<<"\"", "true", "\"">>}
    /\ \E it \in BoolLeaves : it.node.name = "LITERAL" /\ ValuesOf(it.name) = {<<"false">>}

\* C10: every parameter name emitted is a schema leaf that is also a key of the
\* values, or a nested group with a non-empty body; a leaf absent from the values
\* and a key that is not in the schema never appear.
C10_OnlyPresentNames ==
    (BuiltOk /\ KindsKnown) =>
        \A i \in 1..Len(Out) :
            (i < Len(Out) /\ Out[i + 1] = ":") =>
                \/ \E it \in LeafItems(query_args) : it.name = Out[i] /\ Out[i] \in Keys
                \/ /\ \E g \in GroupItems(query_args) : g.name = Out[i]
                   /\ i + 3 <= Len(Out)
                   /\ Out[i + 2] = "{"
                   /\ Out[i + 3] # "}"

====
